---- MODULE Spec2Model ----
(***************************************************************************)
(* Model of package facets (the faceted filter-expression builder of the   *)
(* labrinth client).                                                       *)
(*                                                                         *)
(* A Go string is a sequence of one-character strings, so that rendering   *)
(* (fmt.Sprintf, strings.Join) is real concatenation and the rendered text *)
(* can be scanned character by character.                                  *)
(*                                                                         *)
(* Objects live in two heaps: heap holds the facetProp objects, builders   *)
(* the facets objects.  A FacetProp or FacetsBuilder value is a reference: *)
(* an index into its heap.                                                 *)
(***************************************************************************)
EXTENDS Integers, Sequences, FiniteSets

VARIABLES
    heap,       \* the facetProp objects: [key, state]
    builders,   \* the facets objects: [state, props]
    call,       \* the call executed last
    ret,        \* what that call returned
    prog,       \* the client program: the sequence of calls it makes
    pc,         \* the position in prog of the call that comes next
    threads,    \* the calls in progress in goroutines of their own
    client      \* package labrinth: a Client and the Do call it runs

vars == <<heap, builders, call, ret, prog, pc, threads, client>>

\* Longest operand list of one operator call, longest group of one And call
\* and largest number of calls in a row of the generated client programs.
MaxLen == 2

(***************************************************************************)
(* Strings                                                                 *)
(***************************************************************************)
QUOTE == "\""
COMMA == ","
LBRACK == "["
RBRACK == "]"

RECURSIVE Concat(_)
\* the concatenation of a sequence of strings
Concat(ss) == IF ss = <<>> THEN <<>> ELSE Head(ss) \o Concat(Tail(ss))

RECURSIVE Join(_, _)
\* strings.Join
Join(elems, sep) ==
    IF elems = <<>> THEN <<>>
    ELSE IF Len(elems) = 1 THEN elems[1]
    ELSE Head(elems) \o sep \o Join(Tail(elems), sep)

(***************************************************************************)
(* Keys of the named constructors, src/unnamed/part_000 lines 11-16        *)
(***************************************************************************)
\* newFacetProp: the object one call of the returned constructor allocates
newFacetProp(key) == [key |-> key, state |-> <<>>]

ProjectType == newFacetProp(<<"p", "r", "o", "j", "e", "c", "t", "_", "t", "y", "p", "e">>)
Versions == newFacetProp(<<"v", "e", "r", "s", "i", "o", "n", "s">>)
Categories == newFacetProp(<<"c", "a", "t", "e", "g", "o", "r", "i", "e", "s">>)
ClientSide == newFacetProp(<<"c", "l", "i", "e", "n", "t", "_", "s", "i", "d", "e">>)
ServerSide == newFacetProp(<<"s", "e", "r", "v", "e", "r", "_", "s", "i", "d", "e">>)
OpenSource == newFacetProp(<<"o", "p", "e", "n", "_", "s", "o", "u", "r", "c", "e">>)

(***************************************************************************)
(* Results: every method is a function from the two heaps and its          *)
(* arguments to the two heaps after the call and the returned value.       *)
(***************************************************************************)
NoRet == [kind |-> "none", ref |-> 0, str |-> <<>>]
PropRef(p) == [kind |-> "FacetProp", ref |-> p, str |-> <<>>]
BuilderRef(b) == [kind |-> "FacetsBuilder", ref |-> b, str |-> <<>>]
\* no Client is in use
NoClient == [pc |-> "none"]

StringVal(s) == [kind |-> "string", ref |-> 0, str |-> s]

Result(h, bs, r) == [heap |-> h, builders |-> bs, ret |-> r]

\* (a variant in which the constructors of one key share their clauses: the
\* new object starts with the clauses of the latest object of the same key)
ConstructShared(h, bs, obj) ==
    LET same == {i \in 1..Len(h) : h[i].key = obj.key}
        latest == CHOOSE i \in same : \A j \in same : j <= i
    IN  Result(Append(h, IF same = {} THEN obj ELSE h[latest]), bs,
               PropRef(Len(h) + 1))

\* a call of one of the constructor variables: allocates the object
Construct(h, bs, obj) == Result(Append(h, obj), bs, PropRef(Len(h) + 1))

(***************************************************************************)
(* facetProp                                                               *)
(***************************************************************************)
\* (a variant that escapes the quote characters of the operand)
SprintfEscaped(key, sym, v) ==
    <<QUOTE>> \o key \o sym
    \o Concat([i \in 1..Len(v) |-> IF v[i] = QUOTE THEN <<"\\", QUOTE>> ELSE <<v[i]>>])
    \o <<QUOTE>>

\* fmt.Sprintf(`"%s<sym>%s"`, f.key, v)
Sprintf(key, sym, v) == <<QUOTE>> \o key \o sym \o v \o <<QUOTE>>

RECURSIVE AppendEach(_, _, _, _)
\* for _, v := range s { f.state = append(f.state, Sprintf(...)) }
AppendEach(state, key, sym, s) ==
    IF s = <<>> THEN state
    ELSE AppendEach(Append(state, Sprintf(key, sym, Head(s))), key, sym, Tail(s))

\* (a variant that assigns the new clauses instead of appending them)
OperatorAssigning(h, bs, p, sym, s) ==
    Result([h EXCEPT ![p].state = AppendEach(<<>>, h[p].key, sym, s)],
           bs, PropRef(p))

\* (a variant that returns a copy holding the new clauses and leaves the
\* receiver as it was)
OperatorCopying(h, bs, p, sym, s) ==
    Result(Append(h, [h[p] EXCEPT !.state = AppendEach(h[p].state, h[p].key, sym, s)]),
           bs, PropRef(Len(h) + 1))

\* the body shared by the six operator methods; returns f
Operator(h, bs, p, sym, s) ==
    Result([h EXCEPT ![p].state = AppendEach(h[p].state, h[p].key, sym, s)],
           bs, PropRef(p))

Equal(h, bs, p, s) == Operator(h, bs, p, <<"=">>, s)
NotEqual(h, bs, p, s) == Operator(h, bs, p, <<"!", "=">>, s)
Less(h, bs, p, s) == Operator(h, bs, p, <<"<">>, s)
\* (a variant with the symbol of Less)
LessOrEqualAsLess(h, bs, p, s) == Operator(h, bs, p, <<"<">>, s)
LessOrEqual(h, bs, p, s) == Operator(h, bs, p, <<"<", "=">>, s)
Greater(h, bs, p, s) == Operator(h, bs, p, <<">">>, s)
GreaterOrEqual(h, bs, p, s) == Operator(h, bs, p, <<">", "=">>, s)

\* facetProp.String: the text
facetPropText(f) == Join(f.state, <<COMMA>>)

\* facetProp.String
facetPropString(h, bs, p) == Result(h, bs, StringVal(facetPropText(h[p])))

(***************************************************************************)
(* propList and facets                                                     *)
(***************************************************************************)
\* propList.String
propListString(h, e) ==
    LET s == [i \in 1..Len(e) |-> facetPropText(h[e[i]])]    \* lo.Map
    IN  Join(s, <<COMMA>>)

\* (a variant that drops a group whose text repeats the text before it)
facetsTextDedup(h, f) ==
    LET s == [i \in 1..Len(f.props) |->
                 <<LBRACK>> \o propListString(h, f.props[i]) \o <<RBRACK>>]
        kept == [i \in 1..Len(s) |-> IF i > 1 /\ s[i] = s[i - 1] THEN <<>>
                                     ELSE (IF i > 1 THEN <<COMMA>> ELSE <<>>) \o s[i]]
    IN  <<LBRACK>> \o Concat(kept) \o <<RBRACK>>

\* (a variant that forgets the brackets of each group)
facetsTextFlat(h, f) ==
    LET s == [i \in 1..Len(f.props) |-> propListString(h, f.props[i])]
    IN  <<LBRACK>> \o Join(s, <<COMMA>>) \o <<RBRACK>>

\* facets.String: the text
facetsText(h, f) ==
    LET s == [i \in 1..Len(f.props) |->                   \* lo.Map
                 <<LBRACK>> \o propListString(h, f.props[i]) \o <<RBRACK>>]
    IN  <<LBRACK>> \o Join(s, <<COMMA>>) \o <<RBRACK>>

\* (a variant that keeps the rendered groups in the state field of the
\* builder and renders that field)
facetsStringCaching(h, bs, b) ==
    LET s == [i \in 1..Len(bs[b].props) |->
                 <<LBRACK>> \o propListString(h, bs[b].props[i]) \o <<RBRACK>>]
        cached == bs[b].state \o s
    IN  Result(h, [bs EXCEPT ![b].state = cached],
               StringVal(<<LBRACK>> \o Join(cached, <<COMMA>>) \o <<RBRACK>>))

\* facets.String
facetsString(h, bs, b) == Result(h, bs, StringVal(facetsText(h, bs[b])))

\* (a variant that puts the new group in front of the others)
AndPrepending(h, bs, b, props) ==
    Result(h, [bs EXCEPT ![b].props = <<props>> \o bs[b].props], BuilderRef(b))

\* (a variant that stores copies of the comparisons as they are at the call)
AndSnapshot(h, bs, b, props) ==
    IF props = <<>>
    THEN Result(h, [bs EXCEPT ![b].props = Append(bs[b].props, <<>>)], BuilderRef(b))
    ELSE Result(h \o [i \in 1..Len(props) |-> h[props[i]]],
                [bs EXCEPT ![b].props =
                    Append(bs[b].props, [i \in 1..Len(props) |-> Len(h) + i])],
                BuilderRef(b))

\* (a variant that ignores a call without comparisons)
AndSkippingEmpty(h, bs, b, props) ==
    IF props = <<>> THEN Result(h, bs, BuilderRef(b))
    ELSE Result(h, [bs EXCEPT ![b].props = Append(bs[b].props, props)], BuilderRef(b))

\* facets.And
And(h, bs, b, props) ==
    Result(h, [bs EXCEPT ![b].props = Append(bs[b].props, props)], BuilderRef(b))

\* (a variant that adds the first group whatever the number of comparisons)
NewAlwaysAnd(h, bs, props) ==
    Result(h, Append(bs, [state |-> <<>>, props |-> <<props>>]),
           BuilderRef(Len(bs) + 1))

\* New
New(h, bs, props) ==
    LET b == Len(bs) + 1
        f == Append(bs, [state |-> <<>>, props |-> <<>>])
    IN  IF Len(props) # 0
        THEN LET r == And(h, f, b, props)       \* f.And(props...)
             IN  Result(r.heap, r.builders, BuilderRef(b))
        ELSE Result(h, f, BuilderRef(b))

(***************************************************************************)
(* The client: the calls it makes                                          *)
(***************************************************************************)
Call(op, on, key, s, props) ==
    [op |-> op, on |-> on, key |-> key, s |-> s, props |-> props]

NoCall == Call("none", 0, <<>>, <<>>, <<>>)

\* the shapes of a call
Ctor(op) == Call(op, 0, <<>>, <<>>, <<>>)
Make(key) == Call("newFacetProp", 0, key, <<>>, <<>>)
Op(op, p, s) == Call(op, p, <<>>, s, <<>>)
CallNew(props) == Call("New", 0, <<>>, <<>>, props)
CallAnd(b, props) == Call("And", b, <<>>, <<>>, props)
CallString(b) == Call("String", b, <<>>, <<>>, <<>>)
CallPropString(p) == Call("FacetProp.String", p, <<>>, <<>>, <<>>)

Operators == {"Equal", "NotEqual", "Less", "LessOrEqual", "Greater", "GreaterOrEqual"}
Constructors ==
    {"ProjectType", "Versions", "Categories", "ClientSide", "ServerSide", "OpenSource"}

\* the calls that may come next
Offered == IF pc <= Len(prog) THEN {prog[pc]} ELSE {}

Calls(op) == {c \in Offered : c.op = op}

Do(c, r) ==
    /\ heap' = r.heap
    /\ builders' = r.builders
    /\ ret' = r.ret
    /\ call' = c
    /\ pc' = pc + 1
    /\ UNCHANGED <<prog, threads, client>>

(***************************************************************************)
(* Actions: one per exported function or method                            *)
(***************************************************************************)
CallProjectType == \E c \in Calls("ProjectType") : Do(c, Construct(heap, builders, ProjectType))
CallVersions == \E c \in Calls("Versions") : Do(c, Construct(heap, builders, Versions))
CallCategories == \E c \in Calls("Categories") : Do(c, Construct(heap, builders, Categories))
CallClientSide == \E c \in Calls("ClientSide") : Do(c, Construct(heap, builders, ClientSide))
CallServerSide == \E c \in Calls("ServerSide") : Do(c, Construct(heap, builders, ServerSide))
CallOpenSource == \E c \in Calls("OpenSource") : Do(c, Construct(heap, builders, OpenSource))
CallNewFacetProp ==
    \E c \in Calls("newFacetProp") : Do(c, Construct(heap, builders, newFacetProp(c.key)))

CallEqual == \E c \in Calls("Equal") : Do(c, Equal(heap, builders, c.on, c.s))
CallNotEqual == \E c \in Calls("NotEqual") : Do(c, NotEqual(heap, builders, c.on, c.s))
CallLess == \E c \in Calls("Less") : Do(c, Less(heap, builders, c.on, c.s))
CallLessOrEqual ==
    \E c \in Calls("LessOrEqual") : Do(c, LessOrEqual(heap, builders, c.on, c.s))
CallGreater == \E c \in Calls("Greater") : Do(c, Greater(heap, builders, c.on, c.s))
CallGreaterOrEqual ==
    \E c \in Calls("GreaterOrEqual") : Do(c, GreaterOrEqual(heap, builders, c.on, c.s))
CallFacetPropString ==
    \E c \in Calls("FacetProp.String") : Do(c, facetPropString(heap, builders, c.on))

CallNewBuilder == \E c \in Calls("New") : Do(c, New(heap, builders, c.props))
CallBuilderAnd == \E c \in Calls("And") : Do(c, And(heap, builders, c.on, c.props))
CallBuilderString == \E c \in Calls("String") : Do(c, facetsString(heap, builders, c.on))

(***************************************************************************)
(* Client programs.  A program is a sequence of calls; references are the  *)
(* numbers the constructors hand out, in allocation order.                 *)
(***************************************************************************)
\* sequences over S of length at most n
SeqsUpTo(S, n) == UNION {[1..k -> S] : k \in 0..n}

A == <<"a">>
B == <<"b">>
C == <<"c">>
D == <<"d">>
K1 == <<"k", "1">>
K2 == <<"k", "2">>

\* operand values: plain, empty, and the characters of the output grammar
Values == {A, <<>>, <<QUOTE>>, <<COMMA>>, <<LBRACK>>, <<RBRACK>>}

\* one operator call on a fresh comparison, rendered twice by itself and
\* once inside a builder: every constructor with every operator, and every
\* operator with every operand list
OneCall(c, op, s) ==
    <<Ctor(c), Op(op, 1, s), CallPropString(1), CallPropString(1),
      CallNew(<<1>>), CallString(1)>>

OneCallPrograms ==
    {OneCall(c, op, <<A, (<<>>)>>) : c \in Constructors, op \in Operators}
    \cup {OneCall("Categories", op, s) : op \in Operators,
                                         s \in SeqsUpTo(Values, MaxLen)}

\* a run of operator calls of any kinds on one comparison
OperatorCalls == {Op(op, 1, <<>>) : op \in Operators}
                 \cup {Op(op, 1, <<A>>) : op \in Operators}
                 \cup {Op(op, 1, <<B, A>>) : op \in Operators}

Mixed(cs) ==
    <<Ctor("Versions")>> \o cs
    \o <<CallPropString(1), CallNew(<<1>>), CallString(1), CallString(1)>>

MixedPrograms == {Mixed(cs) : cs \in SeqsUpTo(OperatorCalls, MaxLen)}

\* two comparisons: the first with two clauses, the second with none
Setup == <<Ctor("Categories"), Ctor("Versions"), Op("Equal", 1, <<A, B>>)>>

Groups == SeqsUpTo({1, 2}, MaxLen)

RECURSIVE AddGroups(_, _)
\* And for each group, each followed by String
AddGroups(b, gs) ==
    IF gs = <<>> THEN <<>>
    ELSE <<CallAnd(b, Head(gs)), CallString(b)>> \o AddGroups(b, Tail(gs))

\* a builder grown group by group, then an operator call on a member
Grow(gs) ==
    Setup \o <<CallNew(<<>>), CallString(1)>> \o AddGroups(1, gs)
    \o <<CallString(1), Op("Less", 2, <<C>>), CallString(1)>>

GrowPrograms == {Grow(gs) : gs \in SeqsUpTo(Groups, MaxLen)}

\* New(g1) beside New().And(g1), both then grown by g2
Pair(g1, g2) ==
    Setup \o <<CallNew(g1), CallNew(<<>>), CallAnd(2, g1),
               CallString(1), CallString(2),
               CallAnd(1, g2), CallAnd(2, g2),
               CallString(1), CallString(2)>>

PairPrograms == {Pair(g1, g2) : g1 \in Groups, g2 \in Groups}

\* two builders given the same two groups in opposite orders
Swap(g1, g2) ==
    Setup \o <<CallNew(<<>>), CallNew(<<>>),
               CallAnd(1, g1), CallAnd(1, g2),
               CallAnd(2, g2), CallAnd(2, g1),
               CallString(1), CallString(2)>>

SwapPrograms == {Swap(g1, g2) : g1 \in Groups, g2 \in Groups}

\* two groups, each one comparison with two Equal operands
Nesting ==
    <<Make(K1), Op("Equal", 1, <<A, B>>), Make(K2), Op("Equal", 2, <<C, D>>),
      CallNew(<<>>), CallAnd(1, <<1>>), CallAnd(1, <<2>>), CallString(1)>>

\* New().And(ProjectType().Equal("mod")).
\*       And(Categories().Equal("fabric"), Categories().Equal("quilt")).
\*       And(Versions().Equal("1.19.4")), in Go's order of evaluation
EndToEnd ==
    <<CallNew(<<>>),
      Ctor("ProjectType"), Op("Equal", 1, <<(<<"m", "o", "d">>)>>),
      CallAnd(1, <<1>>),
      Ctor("Categories"), Op("Equal", 2, <<(<<"f", "a", "b", "r", "i", "c">>)>>),
      Ctor("Categories"), Op("Equal", 3, <<(<<"q", "u", "i", "l", "t">>)>>),
      CallAnd(1, <<2, 3>>),
      Ctor("Versions"), Op("Equal", 4, <<(<<"1", ".", "1", "9", ".", "4">>)>>),
      CallAnd(1, <<4>>),
      CallString(1)>>

\* an empty group between two groups that are not empty
EmptyBetween ==
    Setup \o <<CallNew(<<1>>), CallString(1), CallAnd(1, <<>>), CallString(1),
               CallAnd(1, <<1>>), CallString(1)>>

\* an operand that spells the text between two groups
Hostile ==
    <<"\"", "]", ",", "[", "\"", "k", "=">>

Spelled ==
    <<Make(<<"k">>), Op("Equal", 1, <<(<<>>)>>),
      Make(<<"k">>), Op("Equal", 2, <<Hostile>>),
      CallNew(<<>>), CallNew(<<>>),
      CallAnd(1, <<1>>), CallAnd(1, <<2>>),
      CallAnd(2, <<2>>), CallAnd(2, <<1>>),
      CallString(1), CallString(2)>>

Programs ==
    OneCallPrograms \cup MixedPrograms \cup GrowPrograms
    \cup PairPrograms \cup SwapPrograms
    \cup {Nesting, EndToEnd, EmptyBetween, Spelled}

\* the calls made so far
Done == SubSeq(prog, 1, pc - 1)
Finished == pc > Len(prog)

Init ==
    /\ heap = <<>>
    /\ builders = <<>>
    /\ call = NoCall
    /\ ret = NoRet
    /\ prog \in Programs
    /\ pc = 1
    /\ threads = <<>>
    /\ client = NoClient

Next ==
    \/ CallProjectType
    \/ CallVersions
    \/ CallCategories
    \/ CallClientSide
    \/ CallServerSide
    \/ CallOpenSource
    \/ CallNewFacetProp
    \/ CallEqual
    \/ CallNotEqual
    \/ CallLess
    \/ CallLessOrEqual
    \/ CallGreater
    \/ CallGreaterOrEqual
    \/ CallFacetPropString
    \/ CallNewBuilder
    \/ CallBuilderAnd
    \/ CallBuilderString

Spec == Init /\ [][Next]_vars

(***************************************************************************)
(* Calls in goroutines.  The client first runs prog to its end in one      *)
(* goroutine; then the calls of threads run each in a goroutine of its     *)
(* own, one access to the shared objects per step.                         *)
(***************************************************************************)
\* the call c made on heaps h and bs
Exec(h, bs, c) ==
    CASE c.op = "ProjectType" -> Construct(h, bs, ProjectType)
      [] c.op = "Versions" -> Construct(h, bs, Versions)
      [] c.op = "Categories" -> Construct(h, bs, Categories)
      [] c.op = "ClientSide" -> Construct(h, bs, ClientSide)
      [] c.op = "ServerSide" -> Construct(h, bs, ServerSide)
      [] c.op = "OpenSource" -> Construct(h, bs, OpenSource)
      [] c.op = "newFacetProp" -> Construct(h, bs, newFacetProp(c.key))
      [] c.op = "Equal" -> Equal(h, bs, c.on, c.s)
      [] c.op = "NotEqual" -> NotEqual(h, bs, c.on, c.s)
      [] c.op = "Less" -> Less(h, bs, c.on, c.s)
      [] c.op = "LessOrEqual" -> LessOrEqual(h, bs, c.on, c.s)
      [] c.op = "Greater" -> Greater(h, bs, c.on, c.s)
      [] c.op = "GreaterOrEqual" -> GreaterOrEqual(h, bs, c.on, c.s)
      [] c.op = "FacetProp.String" -> facetPropString(h, bs, c.on)
      [] c.op = "New" -> New(h, bs, c.props)
      [] c.op = "And" -> And(h, bs, c.on, c.props)
      [] c.op = "String" -> facetsString(h, bs, c.on)

RECURSIVE Run(_, _, _)
\* the calls cs made one after the other
Run(h, bs, cs) ==
    IF cs = <<>> THEN Result(h, bs, NoRet)
    ELSE IF Len(cs) = 1 THEN Exec(h, bs, cs[1])
    ELSE LET r == Exec(h, bs, Head(cs)) IN Run(r.heap, r.builders, Tail(cs))

\* a call in progress: where it stands, the index of its loop, the value it
\* read last, the texts it has gathered, and what it returned
Thread(c) ==
    [call |-> c, stage |-> "start", i |-> 1, cur |-> <<>>, acc |-> <<>>, out |-> NoRet]

Step(h, bs, th) == [heap |-> h, builders |-> bs, thread |-> th]

\* facets.String, entry: lo.Map takes the slice f.props
StringStart(h, bs, th) ==
    Step(h, bs, [th EXCEPT !.stage = "map", !.cur = bs[th.call.on].props])

\* (a variant in which String gathers the texts in the field state of the
\* builder, which the goroutines share)
StringMapCaching(h, bs, th) ==
    LET b == th.call.on
    IN  IF th.i <= Len(th.cur)
        THEN Step(h, [bs EXCEPT ![b].state =
                         Append(bs[b].state, <<LBRACK>> \o propListString(h, th.cur[th.i])
                                             \o <<RBRACK>>)],
                  [th EXCEPT !.i = th.i + 1])
        ELSE Step(h, bs, [th EXCEPT
                 !.stage = "done",
                 !.out = StringVal(<<LBRACK>> \o Join(bs[b].state, <<COMMA>>)
                                   \o <<RBRACK>>)])

\* facets.String, one round of lo.Map: the text of group i, or the return
StringMap(h, bs, th) ==
    IF th.i <= Len(th.cur)
    THEN Step(h, bs, [th EXCEPT
             !.i = th.i + 1,
             !.acc = Append(th.acc, <<LBRACK>> \o propListString(h, th.cur[th.i])
                                    \o <<RBRACK>>)])
    ELSE Step(h, bs, [th EXCEPT
             !.stage = "done",
             !.out = StringVal(<<LBRACK>> \o Join(th.acc, <<COMMA>>) \o <<RBRACK>>)])

\* facets.And, the read of f.props in append(f.props, props)
AndRead(h, bs, th) ==
    Step(h, bs, [th EXCEPT !.stage = "write", !.cur = bs[th.call.on].props])

\* (a variant in which append is one step on the sequence as it is now)
AndWriteAtomic(h, bs, th) ==
    Step(h, [bs EXCEPT ![th.call.on].props = Append(bs[th.call.on].props, th.call.props)],
         [th EXCEPT !.stage = "done", !.out = BuilderRef(th.call.on)])

\* facets.And, the write of f.props, and the return
AndWrite(h, bs, th) ==
    Step(h, [bs EXCEPT ![th.call.on].props = Append(th.cur, th.call.props)],
         [th EXCEPT !.stage = "done", !.out = BuilderRef(th.call.on)])

\* an operator method, one round of its loop: the read of f.state in
\* append(f.state, ...), or the return
OperatorRead(h, bs, th) ==
    IF th.i <= Len(th.call.s)
    THEN Step(h, bs, [th EXCEPT !.stage = "write", !.cur = h[th.call.on].state])
    ELSE Step(h, bs, [th EXCEPT !.stage = "done", !.out = PropRef(th.call.on)])

\* an operator method, one round of its loop: the write of f.state
OperatorWrite(h, bs, th) ==
    LET p == th.call.on
        one == [th.call EXCEPT !.s = <<th.call.s[th.i]>>]
        seen == [h EXCEPT ![p].state = th.cur]
    IN  Step([h EXCEPT ![p].state = Exec(seen, bs, one).heap[p].state], bs,
             [th EXCEPT !.stage = "read", !.i = th.i + 1])

Take(t, r) ==
    /\ heap' = r.heap
    /\ builders' = r.builders
    /\ threads' = [threads EXCEPT ![t] = r.thread]
    /\ UNCHANGED <<call, ret, prog, pc, client>>

At(t, op, stage) ==
    /\ threads[t].stage = stage
    /\ IF op = "Operator" THEN threads[t].call.op \in Operators
                          ELSE threads[t].call.op = op

GoStringStart ==
    \E t \in 1..Len(threads) :
        At(t, "String", "start") /\ Take(t, StringStart(heap, builders, threads[t]))
GoStringMap ==
    \E t \in 1..Len(threads) :
        At(t, "String", "map") /\ Take(t, StringMap(heap, builders, threads[t]))
GoAndRead ==
    \E t \in 1..Len(threads) :
        At(t, "And", "start") /\ Take(t, AndRead(heap, builders, threads[t]))
GoAndWrite ==
    \E t \in 1..Len(threads) :
        At(t, "And", "write") /\ Take(t, AndWrite(heap, builders, threads[t]))
GoOperatorRead ==
    \E t \in 1..Len(threads) :
        /\ At(t, "Operator", "start") \/ At(t, "Operator", "read")
        /\ Take(t, OperatorRead(heap, builders, threads[t]))
GoOperatorWrite ==
    \E t \in 1..Len(threads) :
        At(t, "Operator", "write") /\ Take(t, OperatorWrite(heap, builders, threads[t]))

\* the builders the goroutines start from: two comparisons and one builder
Built(gs) ==
    Setup \o <<CallNew(<<>>)>> \o [i \in 1..Len(gs) |-> CallAnd(1, gs[i])]

BuiltPrograms == {Built(gs) : gs \in SeqsUpTo({<<1, 2>>, <<>>, <<2>>}, MaxLen)}

\* String() of the builder in 1..MaxLen goroutines
Readers == {[t \in 1..n |-> Thread(CallString(1))] : n \in 1..MaxLen}

\* two And calls on the builder
Adders ==
    {<<Thread(CallAnd(1, g1)), Thread(CallAnd(1, g2))>> :
        g1 \in {<<1>>, <<>>}, g2 \in {<<2>>, <<1, 2>>}}

\* two operator calls on one comparison
Writers ==
    {<<Thread(Op(op, p, s1)), Thread(Op("NotEqual", p, s2))>> :
        op \in Operators, p \in {1, 2}, s1 \in {<<C>>, <<C, D>>}, s2 \in {<<>>, <<D>>}}

InitGo ==
    /\ prog \in BuiltPrograms
    /\ pc = Len(prog) + 1
    /\ heap = Run(<<>>, <<>>, prog).heap
    /\ builders = Run(<<>>, <<>>, prog).builders
    /\ call = prog[Len(prog)]
    /\ ret = Run(<<>>, <<>>, prog).ret
    /\ threads \in Readers \cup Adders \cup Writers
    /\ client = NoClient

NextGo ==
    \/ GoStringStart
    \/ GoStringMap
    \/ GoAndRead
    \/ GoAndWrite
    \/ GoOperatorRead
    \/ GoOperatorWrite

SpecGo == InitGo /\ [][NextGo]_vars

(***************************************************************************)
(* Package labrinth (v2): Client.Do and Client.checkResponse.  The server  *)
(* and the transport are the environment: the response the server gives,   *)
(* whether its body can be read, and whether the transport fails.          *)
(***************************************************************************)
NoErr == [type |-> "nil"]

\* an error that is not an ErrorResponse
Failure(t) == [type |-> t]

ErrorResponse(r, code, description) ==
    [type |-> "ErrorResponse", Response |-> r, Code |-> code, Description |-> description]

Nil == [type |-> "nil"]

\* the value of a key of a JSON object
Absent == [type |-> "absent", val |-> ""]
Str(s) == [type |-> "string", val |-> s]
Num == [type |-> "number", val |-> ""]

\* a body: its JSON syntax and, of an object, the keys error and description
Doc(syntax, error, description) ==
    [type |-> "data", syntax |-> syntax, error |-> error, description |-> description]

Docs ==
    {Doc("empty", Absent, Absent),
     Doc("array", Absent, Absent),
     Doc("object", Absent, Absent),
     Doc("object", Str("not_found"), Str("gone")),
     Doc("object", Num, Str("gone"))}

Statuses == {100, 199, 200, 204, 299, 300, 404, 499, 500, 503}

Header(limit, remaining, reset) ==
    [limit |-> limit, remaining |-> remaining, reset |-> reset]

Headers ==
    {Header(<<>>, <<>>, <<>>),
     Header(<<"3", "0">>, <<"2", "9">>, <<"6">>),
     Header(<<"x">>, <<"-", "1">>, <<>>)}

Digits == <<"0", "1", "2", "3", "4", "5", "6", "7", "8", "9">>

IsDigit(c) == \E i \in 1..Len(Digits) : Digits[i] = c

RECURSIVE Decimal(_)
Decimal(s) ==
    IF s = <<>> THEN 0
    ELSE 10 * Decimal(SubSeq(s, 1, Len(s) - 1))
         + (CHOOSE i \in 1..Len(Digits) : Digits[i] = s[Len(s)]) - 1

\* strconv.Atoi with its error dropped: the number, and 0 for what is none
Atoi(s) ==
    LET signed == s # <<>> /\ s[1] \in {"+", "-"}
        ds == IF signed THEN Tail(s) ELSE s
    IN  IF ds = <<>> \/ \E i \in 1..Len(ds) : ~IsDigit(ds[i]) THEN 0
        ELSE IF signed /\ s[1] = "-" THEN 0 - Decimal(ds)
        ELSE Decimal(ds)

parseRate(r) ==
    [Limit |-> IF r.Header.limit # <<>> THEN Atoi(r.Header.limit) ELSE 0,
     Remaining |-> IF r.Header.remaining # <<>> THEN Atoi(r.Header.remaining) ELSE 0,
     Reset |-> IF r.Header.reset # <<>> THEN Atoi(r.Header.reset) ELSE 0]

\* io.ReadAll of a body: the data, never nil, and the error
ReadAll(body) ==
    IF body.readFails THEN [data |-> Doc("empty", Absent, Absent), err |-> Failure("read")]
    ELSE [data |-> body.doc, err |-> NoErr]

\* json.Unmarshal(data, v): v afterwards, and the error
Unmarshal(data, v) ==
    IF data.syntax = "empty" THEN [v |-> v, err |-> Failure("json")]
    ELSE IF v.type = "nil" THEN [v |-> v, err |-> Failure("json")]
    ELSE IF v.type = "any" THEN [v |-> [v EXCEPT !.val = data], err |-> NoErr]
    ELSE IF data.syntax # "object" THEN [v |-> v, err |-> Failure("json")]
    ELSE [v |-> [v EXCEPT
                   !.Code = IF data.error.type = "string" THEN data.error.val ELSE @,
                   !.Description = IF data.description.type = "string"
                                   THEN data.description.val ELSE @],
          err |-> IF "number" \in {data.error.type, data.description.type}
                  THEN Failure("json") ELSE NoErr]

\* Client.checkResponse with c.JSONUnmarshaler = u: the error it returns,
\* whether it read the body, whether it ran the decoder, and whether it
\* panicked on calling a nil function
Checked(err, read, decoded, panic) ==
    [err |-> err, read |-> read, decoded |-> decoded, panic |-> panic]

checkResponse(u, r) ==
    IF 200 <= r.StatusCode /\ r.StatusCode <= 299
    THEN Checked(NoErr, FALSE, FALSE, FALSE)
    ELSE IF 500 <= r.StatusCode
    THEN Checked(ErrorResponse(r, "", "internal server error"), FALSE, FALSE, FALSE)
    ELSE LET errResp == ErrorResponse(r, "", "")
             rd == ReadAll(r.Body)
         IN  IF rd.err = NoErr /\ rd.data # Nil
             THEN IF u = "nil"
                  THEN Checked(NoErr, TRUE, FALSE, TRUE)
                  ELSE LET d == Unmarshal(rd.data, errResp)
                       IN  IF d.err # NoErr
                           THEN Checked(ErrorResponse(r, "", ""), TRUE, TRUE, FALSE)
                           ELSE Checked(d.v, TRUE, TRUE, FALSE)
             ELSE Checked(errResp, TRUE, FALSE, FALSE)

\* the Response a Do call returns
Response(res, respData) ==
    [type |-> "Response", Response |-> res, Rate |-> parseRate(res), Data |-> respData]

\* NewClient(), and a Do call about to start: the server's response, the
\* caller's context and the caller's target
NewClient(ctx, res, respData) ==
    [pc |-> "start",
     JSONUnmarshaler |-> "nil",
     ctx |-> ctx,
     server |-> res,
     respData |-> respData,
     res |-> Nil,
     response |-> Nil,
     bodyData |-> Nil,
     err |-> NoErr,
     read |-> FALSE,
     decoded |-> "none",
     closed |-> FALSE,
     out |-> Nil]

Return(response, err) == [type |-> "return", response |-> response, err |-> err]

Target == [type |-> "any", val |-> Nil]

SetJSONUnmarshaler ==
    /\ client.pc = "start"
    /\ client.JSONUnmarshaler = "nil"
    /\ client' = [client EXCEPT !.JSONUnmarshaler = "json.Unmarshal"]
    /\ UNCHANGED <<heap, builders, call, ret, prog, pc, threads>>

\* the caller's context is cancelled or its deadline passes
CtxDone ==
    /\ client.pc \in {"start", "failed", "responded", "checked", "read"}
    /\ client.ctx = "live"
    /\ \E e \in {"context canceled", "context deadline exceeded"} :
           client' = [client EXCEPT !.ctx = e]
    /\ UNCHANGED <<heap, builders, call, ret, prog, pc, threads>>

\* Do: res, err := c.hc.Do(req), and on success the Response
DoSend ==
    /\ client.pc = "start"
    /\ \E ok \in BOOLEAN :
           client' =
               IF ok
               THEN [client EXCEPT !.pc = "responded",
                                   !.res = client.server,
                                   !.response = Response(client.server, client.respData)]
               ELSE [client EXCEPT !.pc = "failed", !.err = Failure("transport")]
    /\ UNCHANGED <<heap, builders, call, ret, prog, pc, threads>>

\* Do: the select on ctx.Done() after a failure of the transport
DoFailed ==
    /\ client.pc = "failed"
    /\ client' = [client EXCEPT
           !.pc = "returned",
           !.out = IF client.ctx # "live" THEN Return(Nil, Failure(client.ctx))
                   ELSE Return(Nil, client.err)]
    /\ UNCHANGED <<heap, builders, call, ret, prog, pc, threads>>

\* Do: err = c.checkResponse(res)
DoCheckResponse ==
    /\ client.pc = "responded"
    /\ LET r == checkResponse(client.JSONUnmarshaler, client.res)
           seen == [client EXCEPT !.read = r.read,
                                  !.decoded = IF r.decoded THEN "errResp" ELSE @,
                                  !.err = r.err]
       IN  client' =
               IF r.panic THEN [seen EXCEPT !.pc = "panicked", !.closed = TRUE]
               ELSE IF r.err # NoErr
               THEN [seen EXCEPT !.pc = "returned", !.closed = TRUE,
                                 !.out = Return(client.response, r.err)]
               ELSE [seen EXCEPT !.pc = "checked"]
    /\ UNCHANGED <<heap, builders, call, ret, prog, pc, threads>>

\* Do: bodyData, err := io.ReadAll(res.Body)
DoReadAll ==
    /\ client.pc = "checked"
    /\ LET rd == ReadAll(client.res.Body)
           seen == [client EXCEPT !.read = TRUE, !.err = rd.err, !.bodyData = rd.data]
       IN  client' =
               IF rd.err # NoErr
               THEN [seen EXCEPT !.pc = "returned", !.closed = TRUE,
                                 !.out = Return(client.response, rd.err)]
               ELSE [seen EXCEPT !.pc = "read"]
    /\ UNCHANGED <<heap, builders, call, ret, prog, pc, threads>>

\* Do: err = c.JSONUnmarshaler(bodyData, response.Data)
DoUnmarshal ==
    /\ client.pc = "read"
    /\ client' =
           IF client.JSONUnmarshaler = "nil"
           THEN [client EXCEPT !.pc = "panicked", !.closed = TRUE]
           ELSE LET d == Unmarshal(client.bodyData, client.response.Data)
                    response == [client.response EXCEPT !.Data = d.v]
                IN  [client EXCEPT !.pc = "returned", !.closed = TRUE,
                                   !.decoded = "respData",
                                   !.respData = d.v,
                                   !.response = response,
                                   !.err = d.err,
                                   !.out = Return(response, d.err)]
    /\ UNCHANGED <<heap, builders, call, ret, prog, pc, threads>>

Responses ==
    {[type |-> "http.Response", StatusCode |-> s, Header |-> h,
      Body |-> [doc |-> d, readFails |-> f]] :
        s \in Statuses, h \in Headers, d \in Docs, f \in BOOLEAN}

InitDo ==
    /\ heap = <<>>
    /\ builders = <<>>
    /\ call = NoCall
    /\ ret = NoRet
    /\ prog = <<>>
    /\ pc = 1
    /\ threads = <<>>
    /\ \E ctx \in {"live", "context canceled"}, res \in Responses, respData \in {Nil, Target} :
           client = NewClient(ctx, res, respData)

NextDo ==
    \/ SetJSONUnmarshaler
    \/ CtxDone
    \/ DoSend
    \/ DoFailed
    \/ DoCheckResponse
    \/ DoReadAll
    \/ DoUnmarshal

SpecDo == InitDo /\ [][NextDo]_vars

(***************************************************************************)
(* The output grammar of the builder, as a recogniser of texts             *)
(***************************************************************************)
Structural == {QUOTE, COMMA, LBRACK, RBRACK}

\* no quote, comma or bracket character
Plain(t) == \A i \in 1..Len(t) : t[i] \notin Structural

\* how many brackets are open in front of position i
Depth(t, i) ==
    Cardinality({j \in 1..(i - 1) : t[j] = LBRACK})
    - Cardinality({j \in 1..(i - 1) : t[j] = RBRACK})

\* the positions that end a piece: the commas outside every bracket pair,
\* and the two ends
Cuts(t) ==
    {0, Len(t) + 1} \cup {i \in 1..Len(t) : t[i] = COMMA /\ Depth(t, i) = 0}

\* the pieces of t between the commas that are outside every bracket pair
SplitTop(t) ==
    LET cuts == Cuts(t)
        nth(k) == CHOOSE i \in cuts : Cardinality({j \in cuts : j < i}) = k
    IN  [k \in 1..(Cardinality(cuts) - 1) |-> SubSeq(t, nth(k - 1) + 1, nth(k) - 1)]

Inside(t) == SubSeq(t, 2, Len(t) - 1)

\* clause := "\"" key operator value "\""
IsClause(t) ==
    /\ Len(t) >= 2
    /\ t[1] = QUOTE
    /\ t[Len(t)] = QUOTE
    /\ Plain(Inside(t))
    /\ \E i \in 2..(Len(t) - 1) : t[i] \in {"=", "<", ">"}

\* group := "[" clause ("," clause)* "]" | "[]"
IsGroup(t) ==
    /\ Len(t) >= 2
    /\ t[1] = LBRACK
    /\ t[Len(t)] = RBRACK
    /\ \/ Len(t) = 2
       \/ LET parts == SplitTop(Inside(t))
          IN  \A i \in 1..Len(parts) : IsClause(parts[i])

\* outer := "[" group ("," group)* "]" | "[]"
IsOuter(t) ==
    /\ Len(t) >= 2
    /\ t[1] = LBRACK
    /\ t[Len(t)] = RBRACK
    /\ \/ Len(t) = 2
       \/ LET parts == SplitTop(Inside(t))
          IN  \A i \in 1..Len(parts) : IsGroup(parts[i])

\* every key and operand of the program is plain
PlainProgram ==
    \A i \in 1..Len(prog) :
        /\ Plain(prog[i].key)
        /\ \A j \in 1..Len(prog[i].s) : Plain(prog[i].s[j])

(***************************************************************************)
(* Claims                                                                  *)
(***************************************************************************)
\* the operator symbols as the documentation lists them
Symbol(op) ==
    CASE op = "Equal" -> <<"=">>
      [] op = "NotEqual" -> <<"!", "=">>
      [] op = "Less" -> <<"<">>
      [] op = "LessOrEqual" -> <<"<", "=">>
      [] op = "Greater" -> <<">">>
      [] op = "GreaterOrEqual" -> <<">", "=">>

\* "<key><symbol><v>" in double quotes
Clause(key, op, v) == <<QUOTE>> \o key \o Symbol(op) \o v \o <<QUOTE>>

\* the texts xs[1], xs[2], ... with a comma before each but the first
RECURSIVE Commas(_, _)
Commas(xs, i) ==
    IF i > Len(xs) THEN <<>>
    ELSE (IF i > 1 THEN <<COMMA>> ELSE <<>>) \o xs[i] \o Commas(xs, i + 1)

\* a group as the documentation renders it: the String() of its members
GroupText(e) ==
    <<LBRACK>> \o Commas([i \in 1..Len(e) |-> facetPropText(heap[e[i]])], 1)
    \o <<RBRACK>>

\* the builder as the documentation renders it
BuilderText(b) ==
    <<LBRACK>>
    \o Commas([i \in 1..Len(builders[b].props) |-> GroupText(builders[b].props[i])], 1)
    \o <<RBRACK>>

NestingText ==
    <<"[", "[", "\"", "k", "1", "=", "a", "\"", ",", "\"", "k", "1", "=",
      "b", "\"", "]", ",", "[", "\"", "k", "2", "=", "c", "\"", ",", "\"",
      "k", "2", "=", "d", "\"", "]", "]">>

\* C1: String() of a builder is "[" + its groups in the order added, joined
\* by ",", + "]", each group being "[" + the String() of its members in the
\* order supplied, joined by ",", + "]"; the two-group example serializes to
\* [["k1=a","k1=b"],["k2=c","k2=d"]].
C1_Serialize ==
    /\ call.op = "String" => ret.str = BuilderText(call.on)
    /\ (prog = Nesting /\ Finished) => ret.str = NestingText

C1_Witness ==
    /\ prog = Nesting
    /\ Finished
    /\ call.op = "String"
    /\ Len(builders[1].props) = 2

\* C2: with plain keys and operands, String() of a builder is a sentence of
\* the output grammar, also when a group holds a comparison without clauses.
C2_Grammar ==
    (call.op = "String" /\ PlainProgram) => IsOuter(ret.str)

\* C3: an operator call with operands v1..vn on a comparison with key k
\* appends exactly the n clauses "k<symbol>vi", in operand order, behind the
\* clauses already there, which stay as they were.
C3_OperatorAppends ==
    [][call'.op \in Operators =>
          LET p == call'.on
              s == call'.s
          IN  heap'[p].state =
                  heap[p].state
                  \o [i \in 1..Len(s) |-> Clause(heap[p].key, call'.op, s[i])]]_vars

C3_Witness ==
    /\ call.op = "LessOrEqual"
    /\ Len(call.s) = 2
    /\ call.s[1] # call.s[2]
    /\ Len(heap[call.on].state) > 2

\* the key each named constructor is documented to bind
FixedKey(c) ==
    CASE c = "ProjectType" -> <<"p", "r", "o", "j", "e", "c", "t", "_", "t", "y", "p", "e">>
      [] c = "Versions" -> <<"v", "e", "r", "s", "i", "o", "n", "s">>
      [] c = "Categories" -> <<"c", "a", "t", "e", "g", "o", "r", "i", "e", "s">>
      [] c = "ClientSide" -> <<"c", "l", "i", "e", "n", "t", "_", "s", "i", "d", "e">>
      [] c = "ServerSide" -> <<"s", "e", "r", "v", "e", "r", "_", "s", "i", "d", "e">>
      [] c = "OpenSource" -> <<"o", "p", "e", "n", "_", "s", "o", "u", "r", "c", "e">>

EndToEndText ==
    <<"[", "[", "\"", "p", "r", "o", "j", "e", "c", "t", "_", "t", "y",
      "p", "e", "=", "m", "o", "d", "\"", "]", ",", "[", "\"", "c", "a",
      "t", "e", "g", "o", "r", "i", "e", "s", "=", "f", "a", "b", "r", "i",
      "c", "\"", ",", "\"", "c", "a", "t", "e", "g", "o", "r", "i", "e",
      "s", "=", "q", "u", "i", "l", "t", "\"", "]", ",", "[", "\"", "v",
      "e", "r", "s", "i", "o", "n", "s", "=", "1", ".", "1", "9", ".", "4",
      "\"", "]", "]">>

\* C4: a call of a named constructor returns a new comparison with its fixed
\* key and no clauses and leaves the existing comparisons alone; an operator
\* call changes no comparison but its receiver; the end-to-end example
\* serializes to [["project_type=mod"],["categories=fabric",
\* "categories=quilt"],["versions=1.19.4"]].
C4_FreshInstances ==
    [][/\ call'.op \in Constructors =>
            /\ ret' = PropRef(Len(heap) + 1)
            /\ Len(heap') = Len(heap) + 1
            /\ heap'[Len(heap')] = [key |-> FixedKey(call'.op), state |-> <<>>]
            /\ \A q \in 1..Len(heap) : heap'[q] = heap[q]
       /\ call'.op \in Operators =>
            /\ Len(heap') = Len(heap)
            /\ \A q \in 1..Len(heap) : q # call'.on => heap'[q] = heap[q]
       /\ (prog = EndToEnd /\ pc' > Len(prog)) => ret'.str = EndToEndText]_vars

C4_Witness ==
    /\ prog = EndToEnd
    /\ Finished
    /\ heap[2].key = heap[3].key
    /\ heap[2].state # heap[3].state

RECURSIVE ClausesOf(_, _)
\* the clauses the operator calls among cs put on comparison p, in call order
ClausesOf(cs, p) ==
    IF cs = <<>> THEN <<>>
    ELSE LET c == Head(cs)
         IN  (IF c.op \in Operators /\ c.on = p
              THEN [i \in 1..Len(c.s) |-> Clause(heap[p].key, c.op, c.s[i])]
              ELSE <<>>)
             \o ClausesOf(Tail(cs), p)

\* C5: the clauses of a comparison are the clauses of all the operator calls
\* made on it, of whatever kinds, in call order, each with the symbol of the
\* method that produced it.
C5_MixedOperators ==
    \A p \in 1..Len(heap) : heap[p].state = ClausesOf(Done, p)

C5_Witness ==
    /\ prog \in MixedPrograms
    /\ Finished
    /\ prog[2].op = "Equal"
    /\ prog[3].op = "NotEqual"
    /\ Len(prog[2].s) = 2
    /\ Len(prog[3].s) = 1
    /\ Len(heap[1].state) = 3

Renders == {"String", "FacetProp.String"}

\* C6: String() of a builder or of a comparison changes no comparison and no
\* builder, and called again at once returns the same text.
C6_StringIsPure ==
    [][/\ call'.op \in Renders => (heap' = heap /\ builders' = builders)
       /\ (call.op \in Renders /\ call' = call) => ret' = ret]_vars

C6_Witness ==
    /\ call.op = "String"
    /\ pc > 2
    /\ prog[pc - 2] = call
    /\ Len(builders[call.on].props) = 2
    /\ Len(ret.str) > 6

\* the position in a program of Pair of its k-th call behind Setup
AfterSetup(k) == Len(Setup) + k

\* C7: New() makes a builder without groups, whose String() is "[]";
\* New(p1..pn), n >= 1, makes a builder with the one group [p1..pn], which
\* is the builder New().And(p1..pn) makes, also after further And calls.
C7_New ==
    /\ call.op = "New" =>
          /\ ret = BuilderRef(Len(builders))
          /\ builders[ret.ref].props =
                 IF call.props = <<>> THEN <<>> ELSE <<call.props>>
    /\ (/\ call.op = "String"
        /\ call.on = Len(builders)
        /\ Len(Done) > 1
        /\ Done[Len(Done) - 1] = CallNew(<<>>))
          => ret.str = <<LBRACK, RBRACK>>
    /\ (/\ prog \in PairPrograms
        /\ prog[AfterSetup(1)].props # <<>>
        /\ pc - 1 \in {AfterSetup(3), AfterSetup(4), AfterSetup(5),
                       AfterSetup(7), AfterSetup(8), AfterSetup(9)})
          => /\ builders[1] = builders[2]
             /\ call = CallString(2) => ret.str = facetsText(heap, builders[1])

C7_Witness ==
    /\ prog \in PairPrograms
    /\ Finished
    /\ Len(prog[AfterSetup(1)].props) = 2
    /\ Len(builders[1].props) = 2
    /\ builders[1] = builders[2]

RECURSIVE EmptyGroups(_)
\* how many of the groups gs have no member
EmptyGroups(gs) ==
    IF gs = <<>> THEN 0
    ELSE (IF Head(gs) = <<>> THEN 1 ELSE 0) + EmptyGroups(Tail(gs))

RECURSIVE EmptyAnds(_, _)
\* how many of the calls cs are And() on builder b
EmptyAnds(cs, b) ==
    IF cs = <<>> THEN 0
    ELSE (IF Head(cs) = CallAnd(b, <<>>) THEN 1 ELSE 0) + EmptyAnds(Tail(cs), b)

EmptyBetweenText ==
    <<"[", "[", "\"", "c", "a", "t", "e", "g", "o", "r", "i", "e", "s",
      "=", "a", "\"", ",", "\"", "c", "a", "t", "e", "g", "o", "r", "i",
      "e", "s", "=", "b", "\"", "]", ",", "[", "]", ",", "[", "\"", "c",
      "a", "t", "e", "g", "o", "r", "i", "e", "s", "=", "a", "\"", ",",
      "\"", "c", "a", "t", "e", "g", "o", "r", "i", "e", "s", "=", "b",
      "\"", "]", "]">>

\* C8: And() without comparisons appends one group without members; every
\* such group stays, and String() shows it as [] at its position.
C8_EmptyGroup ==
    /\ \A b \in 1..Len(builders) :
          EmptyGroups(builders[b].props) = EmptyAnds(Done, b)
    /\ (call.op = "And" /\ call.props = <<>>) =>
          builders[call.on].props[Len(builders[call.on].props)] = <<>>
    /\ (call.op = "String" /\ PlainProgram /\ builders[call.on].props # <<>>) =>
          LET gs == builders[call.on].props
              parts == SplitTop(Inside(ret.str))
          IN  /\ Len(parts) = Len(gs)
              /\ \A i \in 1..Len(gs) : gs[i] = <<>> => parts[i] = <<LBRACK, RBRACK>>
    /\ (call.op = "String" /\ builders[call.on].props = <<(<<>>)>>) =>
          ret.str = <<LBRACK, LBRACK, RBRACK, RBRACK>>
    /\ (prog = EmptyBetween /\ Finished) => ret.str = EmptyBetweenText

C8_Witness ==
    /\ prog = EmptyBetween
    /\ Finished
    /\ builders[1].props[2] = <<>>
    /\ builders[1].props[1] # <<>>
    /\ builders[1].props[3] # <<>>

\* C9: no call is refused; an operator call returns its receiver and renders
\* every operand, also the empty one and one with quote, comma or bracket
\* characters, unchanged between the symbol and the closing quote.
C9_Total ==
    /\ ~Finished => ENABLED Next
    /\ ret.kind \in {"none", "FacetProp", "FacetsBuilder", "string"}
    /\ call.op \in Operators =>
          LET f == heap[call.on]
              n == Len(call.s)
              m == Len(f.state)
          IN  /\ ret = PropRef(call.on)
              /\ m >= n
              /\ \A i \in 1..n :
                    LET c == f.state[m - n + i]
                        v == call.s[i]
                    IN  /\ Len(c) = Len(f.key) + Len(Symbol(call.op)) + Len(v) + 2
                        /\ SubSeq(c, Len(c) - Len(v), Len(c) - 1) = v

C9_Witness ==
    /\ call.op = "GreaterOrEqual"
    /\ call.s = <<(<<QUOTE>>), (<<>>)>>
    /\ Len(heap[call.on].state) = 2

(***************************************************************************)
(* C10                                                                     *)
(***************************************************************************)
\* the texts of the groups of builder b, in the order added
GroupTexts(b) ==
    [i \in 1..Len(builders[b].props) |->
        <<LBRACK>> \o propListString(heap, builders[b].props[i]) \o <<RBRACK>>]

\* xs is ys in another order
Reordered(xs, ys) ==
    /\ Len(xs) = Len(ys)
    /\ xs # ys
    /\ \E f \in [1..Len(xs) -> 1..Len(xs)] :
          /\ \A i, j \in 1..Len(xs) : f[i] = f[j] => i = j
          /\ \A i \in 1..Len(xs) : ys[i] = xs[f[i]]

Text(b) == facetsText(heap, builders[b])

\* C10 as stated: builders with the same groups in the same order have the
\* same text, and builders with the same groups in different orders have
\* different texts.
C10_OrderDecides ==
    \A b1, b2 \in 1..Len(builders) :
        /\ builders[b1].props = builders[b2].props => Text(b1) = Text(b2)
        /\ Reordered(builders[b1].props, builders[b2].props) => Text(b1) # Text(b2)

\* no key and no operand of the program has a bracket character
NoBrackets(t) == \A i \in 1..Len(t) : t[i] \notin {LBRACK, RBRACK}

BracketFreeProgram ==
    \A i \in 1..Len(prog) :
        /\ NoBrackets(prog[i].key)
        /\ \A j \in 1..Len(prog[i].s) : NoBrackets(prog[i].s[j])

\* C10, amended: with keys and operands free of bracket characters, two
\* builders have the same text exactly when their groups, in the order
\* added, have the same texts one by one: nothing is sorted, dropped or
\* merged, and an order that differs in the text of some position differs
\* in the output.
C10_TextOrderDecides ==
    BracketFreeProgram =>
        \A b1, b2 \in 1..Len(builders) :
            (Text(b1) = Text(b2)) <=> (GroupTexts(b1) = GroupTexts(b2))

C10_Witness ==
    /\ prog \in SwapPrograms
    /\ Finished
    /\ Reordered(builders[1].props, builders[2].props)
    /\ GroupTexts(1) # GroupTexts(2)
    /\ Text(1) # Text(2)

RECURSIVE AndGroups(_, _)
\* the groups the And calls among cs hand to builder b, in call order
AndGroups(cs, b) ==
    IF cs = <<>> THEN <<>>
    ELSE (IF Head(cs).op = "And" /\ Head(cs).on = b THEN <<Head(cs).props>> ELSE <<>>)
         \o AndGroups(Tail(cs), b)

\* the calls of New among cs
News(cs) == SelectSeq(cs, LAMBDA c : c.op = "New")

\* C12: And adds exactly the supplied group, members in the supplied order,
\* behind the groups already there and changes nothing else; no other call
\* changes the groups of an existing builder; a builder made empty has,
\* after k And calls, the k groups of those calls in call order.
C12_AppendOnly ==
    [][/\ call'.op = "And" =>
            /\ Len(builders') = Len(builders)
            /\ builders'[call'.on].props = Append(builders[call'.on].props, call'.props)
            /\ \A b \in 1..Len(builders) : b # call'.on => builders'[b] = builders[b]
       /\ call'.op # "And" =>
            \A b \in 1..Len(builders) : builders'[b] = builders[b]
       /\ \A b \in 1..Len(builders') :
            News(Done')[b].props = <<>> => builders'[b].props = AndGroups(Done', b)]_vars

C12_Witness ==
    /\ prog \in GrowPrograms
    /\ Finished
    /\ Len(builders[1].props) = 2
    /\ builders[1].props[1] = <<1, 2>>
    /\ builders[1].props[2] = <<2>>

RECURSIVE Operands(_, _)
\* how many operands the operator calls among cs hand to comparison p
Operands(cs, p) ==
    IF cs = <<>> THEN 0
    ELSE (IF Head(cs).op \in Operators /\ Head(cs).on = p THEN Len(Head(cs).s) ELSE 0)
         + Operands(Tail(cs), p)

\* C13: an operator call, also one without operands, returns its receiver
\* and allocates nothing, so the returned instance holds the clauses of all
\* the calls of a chain; And returns its receiver and allocates nothing, so
\* the returned builder holds the groups of all the calls of a chain.
C13_ReturnsReceiver ==
    /\ call.op \in Operators =>
          /\ ret = PropRef(call.on)
          /\ Len(heap) = Len(SelectSeq(Done, LAMBDA c : c.op \in Constructors \cup {"newFacetProp"}))
          /\ Len(heap[ret.ref].state) = Operands(Done, call.on)
    /\ call.op = "And" =>
          /\ ret = BuilderRef(call.on)
          /\ Len(builders) = Len(News(Done))
          /\ Len(builders[ret.ref].props) =
                 Len(AndGroups(Done, call.on))
                 + (IF News(Done)[call.on].props = <<>> THEN 0 ELSE 1)

C13_Witness ==
    /\ prog \in MixedPrograms
    /\ pc = 4
    /\ prog[2].op = "Equal"
    /\ Len(prog[2].s) = 1
    /\ call.op = "NotEqual"
    /\ call.s = <<>>
    /\ ret = PropRef(1)
    /\ Len(heap[1].state) = 1

\* the groups builder b was handed by New and by And among cs, in call order
GroupsOf(cs, b) ==
    (IF News(cs)[b].props = <<>> THEN <<>> ELSE <<News(cs)[b].props>>)
    \o AndGroups(cs, b)

\* the text of comparison p by the calls made so far
HistoryText(p) == Commas(ClausesOf(Done, p), 1)

\* C15: String() of a builder renders every member, at each of its places,
\* by all the clauses of the comparison handed over, also those of the
\* operator calls made after it was handed to And or New.
C15_ByReference ==
    call.op = "String" =>
        LET gs == GroupsOf(Done, call.on)
            group(e) == <<LBRACK>> \o Commas([i \in 1..Len(e) |-> HistoryText(e[i])], 1)
                        \o <<RBRACK>>
        IN  ret.str = <<LBRACK>> \o Commas([i \in 1..Len(gs) |-> group(gs[i])], 1)
                      \o <<RBRACK>>

C15_Witness ==
    /\ prog \in GrowPrograms
    /\ Finished
    /\ call.op = "String"
    /\ Done[Len(Done) - 1].op = "Less"
    /\ builders[1].props = <<(<<2>>), (<<1, 2>>)>>
    /\ heap[2].state # <<>>

\* the goroutines all run the call op
AllRun(op) ==
    /\ threads # <<>>
    /\ \A t \in 1..Len(threads) :
           IF op = "Operator" THEN threads[t].call.op \in Operators
                              ELSE threads[t].call.op = op

AllDone == \A t \in 1..Len(threads) : threads[t].stage = "done"

\* the objects as prog left them, before the goroutines started
Before == Run(<<>>, <<>>, prog)

\* C11: when the And and operator calls are over, String() calls on one
\* builder in goroutines of their own, their steps interleaved in any
\* order, each return the string one String() call by itself returns, and
\* the builders and the comparisons stay as they were.
C11_ConcurrentString ==
    AllRun("String") =>
        /\ heap = Before.heap
        /\ builders = Before.builders
        /\ \A t \in 1..Len(threads) :
               threads[t].stage = "done" =>
                   threads[t].out
                       = Run(<<>>, <<>>, prog \o <<threads[t].call>>).ret

C11_Witness ==
    /\ AllRun("String")
    /\ Len(threads) >= 2
    /\ AllDone
    /\ Len(builders[1].props) = 2
    /\ builders[1].props[1] # builders[1].props[2]
    /\ threads[1].out.str = BuilderText(1)

\* C14: with append as a read of the sequence and then a write of the
\* sequence read with one element more, a write of one of two And calls (or
\* of two operator calls on one comparison) in goroutines of their own puts
\* in place what its call read, extended: what the other call added since
\* that read is gone, and the builder holds one new group where a call by
\* itself adds one more.
C14_LostUpdate ==
    [][\A t \in 1..Len(threads) :
           (threads[t].stage = "write" /\ threads'[t].stage # "write") =>
               LET th == threads[t]
                   on == th.call.on
               IN  IF th.call.op = "And"
                   THEN /\ builders'[on].props = Append(th.cur, th.call.props)
                        /\ Len(builders'[on].props)
                               = Len(builders[on].props)
                                 + (IF th.cur = builders[on].props THEN 1 ELSE 0)
                   ELSE heap'[on].state
                            = Append(th.cur,
                                     Clause(heap[on].key, th.call.op, th.call.s[th.i]))]_vars

\* both And calls are over and the builder holds one new group, not two
C14_Witness ==
    /\ AllRun("And")
    /\ AllDone
    /\ Len(builders[1].props) = Len(Before.builders[1].props) + 1
    /\ builders[1].props[Len(builders[1].props)] \in
           {threads[1].call.props, threads[2].call.props}

\* both operator calls are over and the comparison misses a clause
C14_MissingClause ==
    /\ AllRun("Operator")
    /\ AllDone
    /\ threads[1].call.s = <<C>>
    /\ threads[2].call.s = <<D>>
    /\ Len(heap[threads[1].call.on].state)
           = Len(Before.heap[threads[1].call.on].state) + 1

\* the Do call is over: it returned, or it panicked
Over == client.pc \in {"returned", "panicked"}

\* the transport gave a response
Responded == client.res # Nil

Success == 200 <= client.res.StatusCode /\ client.res.StatusCode <= 299

\* the error the documentation has for a body: its keys error and
\* description when it decodes, and else the HTTP response alone
ErrorOf(res) ==
    LET d == res.Body.doc
    IN  IF /\ ~res.Body.readFails
           /\ d.syntax = "object"
           /\ "number" \notin {d.error.type, d.description.type}
        THEN ErrorResponse(res, d.error.val, d.description.val)
        ELSE ErrorResponse(res, "", "")

\* C16 as stated: Do and checkResponse classify every response by its
\* status.  For 200..299 checkResponse returns no error and Do decodes the
\* body into the caller's target.  For any other status Do returns a
\* non-nil Response with a non-nil *ErrorResponse and does not decode the
\* body into the target; from 500 on the Description is "internal server
\* error" and the body is not read; below 500 the error is decoded from the
\* body, or is the bare ErrorResponse when that fails.  When the transport
\* fails Do returns a nil Response, with the context's error when the
\* context is done and the transport's error otherwise.
C16_Classify ==
    /\ (client.pc \in {"checked", "read"} => Success)
    /\ (Over /\ Responded /\ Success) =>
           /\ client.pc = "returned"
           /\ client.decoded = "respData"
           /\ client.out.response # Nil
    /\ (Over /\ Responded /\ ~Success) =>
           /\ client.pc = "returned"
           /\ client.out.response # Nil
           /\ client.out.err.type = "ErrorResponse"
           /\ client.out.err.Response = client.res
           /\ client.decoded # "respData"
           /\ client.respData \in {Nil, Target}
           /\ IF 500 <= client.res.StatusCode
              THEN /\ client.out.err.Description = "internal server error"
                   /\ ~client.read
              ELSE client.out.err = ErrorOf(client.res)
    /\ (Over /\ ~Responded) =>
           /\ client.pc = "returned"
           /\ client.out.response = Nil
           /\ client.out.err = IF client.ctx # "live" THEN Failure(client.ctx)
                               ELSE Failure("transport")

====
